---- MODULE Spec2Model ----
(***************************************************************************)
(* Model of app.py, the Piggdekk Support Dashboard: the flexible CSV       *)
(* reader (read_csv_flexible), the two loaders, the merge, the sidebar     *)
(* filters and the KPI / map / table rendering of main().                  *)
(*                                                                         *)
(* Text.  A run of ASCII characters is one atomic symbol [a |-> "Oslo"];   *)
(* all three codecs of the reader map ASCII bytes to the same characters,  *)
(* so a run is the same symbol as bytes and as characters.  Every other    *)
(* byte is [n |-> its value] (128..255) and every other character is       *)
(* [n |-> its Unicode code point].  A text is a sequence of characters, a  *)
(* line of a file a sequence of bytes, a file a sequence of lines.  The    *)
(* empty text is a missing cell.                                           *)
(***************************************************************************)
EXTENDS Integers, Sequences, FiniteSets, TLC

Asc(s) == [a |-> s]

Chr(k) == [n |-> k]

Txt(s) == <<Asc(s)>>

IsAscii(u) == "a" \in DOMAIN u

(***************************************************************************)
(* Codecs (the encoding= argument of pd.read_csv)                          *)
(***************************************************************************)
IsCont(u) == (~IsAscii(u)) /\ u.n >= 128 /\ u.n <= 191

\* U+FEFF, the byte-order mark, whose UTF-8 bytes are EF BB BF
BOMChar == Chr(65279)

\* an encoding either yields bytes or raises UnicodeEncodeError
Encoded(bytes) == [ok |-> TRUE, v |-> bytes]

EncodeError == [ok |-> FALSE, v |-> <<>>]

\* UTF-8 encoding of one character: one to four bytes, none for a surrogate
EncodeUtf8Char(c) ==
    IF IsAscii(c) THEN Encoded(<<c>>)
    ELSE IF c.n < 2048
         THEN Encoded(<<Chr(192 + (c.n \div 64)), Chr(128 + (c.n % 64))>>)
    ELSE IF c.n >= 55296 /\ c.n <= 57343 THEN EncodeError
    ELSE IF c.n < 65536
         THEN Encoded(<<Chr(224 + (c.n \div 4096)), Chr(128 + ((c.n \div 64) % 64)),
                        Chr(128 + (c.n % 64))>>)
    ELSE IF c.n <= 1114111
         THEN Encoded(<<Chr(240 + (c.n \div 262144)), Chr(128 + ((c.n \div 4096) % 64)),
                        Chr(128 + ((c.n \div 64) % 64)), Chr(128 + (c.n % 64))>>)
    ELSE EncodeError

\* Latin-1 encoding of one character: a byte for U+0000..U+00FF, else an error
EncodeLatin1Char(c) ==
    IF IsAscii(c) \/ c.n <= 255 THEN Encoded(<<c>>) ELSE EncodeError

EncodeChar(c, enc) ==
    IF enc = "latin-1" THEN EncodeLatin1Char(c) ELSE EncodeUtf8Char(c)

RECURSIVE EncodeText(_, _)
EncodeText(text, enc) ==
    IF text = <<>> THEN Encoded(<<>>)
    ELSE LET h == EncodeChar(Head(text), enc)
             rest == EncodeText(Tail(text), enc)
         IN IF h.ok /\ rest.ok THEN Encoded(h.v \o rest.v) ELSE EncodeError

\* a decoding either yields characters or raises UnicodeDecodeError
Decoded(chars) == [ok |-> TRUE, v |-> chars]

DecodeError == [ok |-> FALSE, v |-> <<>>]

\* strict UTF-8 decoding of a byte line
RECURSIVE DecodeUtf8(_)
DecodeUtf8(bytes) ==
    IF bytes = <<>> THEN Decoded(<<>>)
    ELSE LET b == Head(bytes) IN
      IF IsAscii(b) THEN
          LET rest == DecodeUtf8(Tail(bytes)) IN
          IF rest.ok THEN Decoded(<<b>> \o rest.v) ELSE DecodeError
      ELSE IF b.n >= 194 /\ b.n <= 223 /\ Len(bytes) >= 2 /\ IsCont(bytes[2]) THEN
          LET rest == DecodeUtf8(SubSeq(bytes, 3, Len(bytes))) IN
          IF rest.ok
          THEN Decoded(<<Chr((b.n - 192) * 64 + (bytes[2].n - 128))>> \o rest.v)
          ELSE DecodeError
      ELSE IF b.n >= 224 /\ b.n <= 239 /\ Len(bytes) >= 3
              /\ IsCont(bytes[2]) /\ IsCont(bytes[3])
              /\ (b.n = 224 => bytes[2].n >= 160)
              /\ (b.n = 237 => bytes[2].n <= 159) THEN
          LET rest == DecodeUtf8(SubSeq(bytes, 4, Len(bytes))) IN
          IF rest.ok
          THEN Decoded(<<Chr((b.n - 224) * 4096 + (bytes[2].n - 128) * 64
                             + (bytes[3].n - 128))>> \o rest.v)
          ELSE DecodeError
      ELSE IF b.n >= 240 /\ b.n <= 244 /\ Len(bytes) >= 4
              /\ IsCont(bytes[2]) /\ IsCont(bytes[3]) /\ IsCont(bytes[4])
              /\ (b.n = 240 => bytes[2].n >= 144)
              /\ (b.n = 244 => bytes[2].n <= 143) THEN
          LET rest == DecodeUtf8(SubSeq(bytes, 5, Len(bytes))) IN
          IF rest.ok
          THEN Decoded(<<Chr((b.n - 240) * 262144 + (bytes[2].n - 128) * 4096
                             + (bytes[3].n - 128) * 64 + (bytes[4].n - 128))>> \o rest.v)
          ELSE DecodeError
      ELSE DecodeError

\* a codec that knows ASCII alone in the place of Latin-1
DecodeAsciiOnly(bytes) ==
    IF \E i \in 1..Len(bytes) : ~IsAscii(bytes[i]) THEN DecodeError
    ELSE Decoded(bytes)

\* Latin-1 decoding: every byte is the character of the same number
DecodeLatin1(bytes) == Decoded(bytes)

DecodeLine(bytes, enc) ==
    IF enc = "latin-1" THEN DecodeLatin1(bytes) ELSE DecodeUtf8(bytes)

\* a file whose whole content is the first byte or the first two bytes of
\* the byte-order mark: the incremental utf-8-sig decoder waits for the rest
\* of the mark and drops the pending bytes at the end of the file
IsBomPrefix(file) ==
    /\ Len(file) = 1
    /\ Len(file[1]) \in {1, 2}
    /\ file[1] = SubSeq(EncodeUtf8Char(BOMChar).v, 1, Len(file[1]))

\* the decoded lines of a file; utf-8-sig drops one leading U+FEFF, utf-8
\* and latin-1 keep whatever the first bytes decode to
DecodeFile(file, enc) ==
    LET res   == [i \in 1..Len(file) |-> DecodeLine(file[i], enc)]
        lines == [i \in 1..Len(file) |-> res[i].v]
    IN
    IF enc = "utf-8-sig" /\ IsBomPrefix(file) THEN Decoded(<<<<>>>>)
    ELSE IF \E i \in 1..Len(file) : ~res[i].ok THEN DecodeError
    ELSE IF enc = "utf-8-sig" /\ Len(lines) > 0 /\ Len(lines[1]) > 0
            /\ lines[1][1] = BOMChar
         THEN Decoded([lines EXCEPT ![1] = Tail(lines[1])])
    ELSE Decoded(lines)

(***************************************************************************)
(* Delimiter sniffing and parsing (sep=None, engine="python")              *)
(***************************************************************************)
\* csv.Sniffer.preferred
preferred == <<",", "\t", ";", " ", ":">>

Occurs(u, line) == \E i \in 1..Len(line) : line[i] = u

\* csv.Sniffer().sniff(first line): with one line every character of the
\* line is a consistent candidate, so the first preferred one present wins
\* (every header line of the model holds at least one of them)
Sniff(line) ==
    LET k == CHOOSE k \in 1..Len(preferred) :
                 /\ Occurs(Asc(preferred[k]), line)
                 /\ \A j \in 1..(k - 1) : ~Occurs(Asc(preferred[j]), line)
    IN Asc(preferred[k])

\* the fields of a line split at every occurrence of sep
RECURSIVE SplitLine(_, _)
SplitLine(line, sep) ==
    IF ~Occurs(sep, line) THEN <<line>>
    ELSE LET k == CHOOSE k \in 1..Len(line) :
                     line[k] = sep /\ \A j \in 1..(k - 1) : line[j] # sep
         IN <<SubSeq(line, 1, k - 1)>> \o SplitLine(SubSeq(line, k + 1, Len(line)), sep)

\* a data row shorter than the header is filled with missing values
PadRow(cells, n) ==
    [j \in 1..n |-> IF j <= Len(cells) THEN cells[j] ELSE <<>>]

\* the raw (untyped) table of decoded lines: header names and text cells
ParseLines(lines) ==
    LET sep  == Sniff(lines[1])
        hdr  == SplitLine(lines[1], sep)
    IN [columns |-> hdr,
        rows    |-> [i \in 1..(Len(lines) - 1) |->
                        PadRow(SplitLine(lines[i + 1], sep), Len(hdr))]]

(***************************************************************************)
(* Cell values and type inference of pd.read_csv                           *)
(* A number is kept in tenths (99.5 is 995), so int() below has something  *)
(* to truncate.                                                            *)
(***************************************************************************)
NaN == [nan |-> TRUE]

Str(text) == [str |-> text]

Num(k) == [num |-> k]

Bool(b) == [bool |-> b]

IsNaN(v) == "nan" \in DOMAIN v

IsNum(v) == "num" \in DOMAIN v

IsBool(v) == "bool" \in DOMAIN v

\* the value, in tenths, of the cells that pandas reads as numbers; every
\* other cell of the files of the model (a name, a date with hyphens, a
\* hyphenated phone number, a URL, "maybe") is one pandas leaves as text
NumLit ==
    [lit \in {"0", "1", "4", "59.9", "10.7", "99.5", "100", "250", "1000"} |->
        CASE lit = "0"    -> 0
          [] lit = "1"    -> 10
          [] lit = "4"    -> 40
          [] lit = "59.9" -> 599
          [] lit = "10.7" -> 107
          [] lit = "99.5" -> 995
          [] lit = "100"  -> 1000
          [] lit = "250"  -> 2500
          [] lit = "1000" -> 10000]

\* pandas' default true_values / false_values
true_values == {"True", "TRUE", "true"}

false_values == {"False", "FALSE", "false"}

IsNumeric(text) == Len(text) = 1 /\ IsAscii(text[1]) /\ text[1].a \in DOMAIN NumLit

IsBoolLit(text) ==
    Len(text) = 1 /\ IsAscii(text[1]) /\ text[1].a \in (true_values \cup false_values)

\* one column of text cells to values: numeric if every present cell is a
\* number, else boolean if every present cell is a boolean literal, else
\* the column stays text; an empty cell is NaN in every case
InferColumn(cells) ==
    LET present == {i \in 1..Len(cells) : cells[i] # <<>>} IN
    IF \A i \in present : IsNumeric(cells[i])
    THEN [i \in 1..Len(cells) |->
             IF cells[i] = <<>> THEN NaN ELSE Num(NumLit[cells[i][1].a])]
    ELSE IF \A i \in present : IsBoolLit(cells[i])
    THEN [i \in 1..Len(cells) |->
             IF cells[i] = <<>> THEN NaN ELSE Bool(cells[i][1].a \in true_values)]
    ELSE [i \in 1..Len(cells) |->
             IF cells[i] = <<>> THEN NaN ELSE Str(cells[i])]

\* a DataFrame: the column names and the rows, each a value per column
DataFrame(columns, rows) == [columns |-> columns, rows |-> rows]

NoFrame == DataFrame(<<>>, <<>>)

InferTypes(raw) ==
    LET n    == Len(raw.rows)
        cols == [j \in 1..Len(raw.columns) |->
                    InferColumn([i \in 1..n |-> raw.rows[i][j]])]
    IN DataFrame(raw.columns,
                 [i \in 1..n |-> [j \in 1..Len(raw.columns) |-> cols[j][i]]])

\* pd.read_csv(path, encoding=enc, sep=None, engine="python")
\* a text without a character in any line: the parser finds no header
IsEmptyText(lines) == \A i \in 1..Len(lines) : lines[i] = <<>>

\* pd.read_csv: the frame, or the error it raises (UnicodeDecodeError of the
\* codec; on an empty text csv.Sniffer().sniff, called to find the delimiter,
\* raises _csv.Error('Could not determine delimiter'))
ReadCsv(file, enc) ==
    LET d == DecodeFile(file, enc) IN
    IF ~d.ok THEN [ok |-> FALSE, err |-> "UnicodeDecodeError", df |-> NoFrame]
    ELSE IF IsEmptyText(d.v) THEN [ok |-> FALSE, err |-> "_csv.Error", df |-> NoFrame]
    ELSE [ok |-> TRUE, err |-> "None", df |-> InferTypes(ParseLines(d.v))]

HasColumn(df, name) == \E j \in 1..Len(df.columns) : df.columns[j] = name

ColIndex(df, name) == CHOOSE j \in 1..Len(df.columns) : df.columns[j] = name

\* df[name]: the values of a column, in row order
Column(df, name) == [i \in 1..Len(df.rows) |-> df.rows[i][ColIndex(df, name)]]

Cell(df, i, name) == df.rows[i][ColIndex(df, name)]

(***************************************************************************)
(* read_csv_flexible: one pass of the loop body                            *)
(***************************************************************************)
encodings == <<"utf-8-sig", "utf-8", "latin-1">>

Returned(df) ==
    [kind |-> "return", df |-> df, missing |-> <<>>, file |-> "", columns |-> <<>>]

RaisedDecode ==
    [kind |-> "UnicodeDecodeError", df |-> NoFrame, missing |-> <<>>, file |-> "",
     columns |-> <<>>]

\* the sniffer's error on an empty text
RaisedCsvError ==
    [kind |-> "_csv.Error", df |-> NoFrame, missing |-> <<>>, file |-> "",
     columns |-> <<>>]

\* the error of pd.read_csv on a path that names no file
RaisedNotFound ==
    [kind |-> "FileNotFoundError", df |-> NoFrame, missing |-> <<>>, file |-> "",
     columns |-> <<>>]

\* except (UnicodeDecodeError, KeyError): the errors that let the loop go on
caught == {"UnicodeDecodeError", "KeyError"}

\* KeyError("Missing columns {missing} in file {path.name}. Current columns
\* are: {list(df.columns)}")
RaisedKey(missing, name, columns) ==
    [kind |-> "KeyError", df |-> NoFrame, missing |-> missing, file |-> name,
     columns |-> columns]

NoError ==
    [kind |-> "None", df |-> NoFrame, missing |-> <<>>, file |-> "", columns |-> <<>>]

\* missing = [c for c in required_cols if c not in df.columns]
Missing(required_cols, df) ==
    LET Absent(c) == ~HasColumn(df, c) IN SelectSeq(required_cols, Absent)

\* the try block for one encoding: the frame it returns or the error it raises
TryEncoding(path, enc, required_cols) ==
    LET r == ReadCsv(path.bytes, enc) IN
    IF ~path.exists THEN RaisedNotFound
    ELSE IF r.err = "UnicodeDecodeError" THEN RaisedDecode
    ELSE IF r.err = "_csv.Error" THEN RaisedCsvError
    ELSE IF required_cols # <<>> /\ Missing(required_cols, r.df) # <<>>
         THEN RaisedKey(Missing(required_cols, r.df), path.name, r.df.columns)
    ELSE Returned(r.df)

\* the whole of read_csv_flexible from the i-th encoding on: what it returns
\* or raises (last is the error of the attempt before)
RECURSIVE FlexibleFrom(_, _, _, _)
FlexibleFrom(path, required_cols, i, last) ==
    IF i > Len(encodings) THEN last
    ELSE LET o == TryEncoding(path, encodings[i], required_cols) IN
         IF o.kind \notin caught THEN o
         ELSE FlexibleFrom(path, required_cols, i + 1, o)

(***************************************************************************)
(* Loaders                                                                 *)
(***************************************************************************)
support_required ==
    <<Txt("municipality"), Txt("county"), Txt("has_support"),
      Txt("payment_per_tire"), Txt("max_tires"), Txt("max_total_nok"),
      Txt("period_start"), Txt("period_end"), Txt("lat"), Txt("lon"),
      Txt("info_url")>>

contacts_required ==
    <<Txt("municipality"), Txt("service_name"), Txt("phone"), Txt("website")>>

\* bool(v) as Series.astype(bool) applies it: a number is true unless zero,
\* NaN is true, and every (non-empty) string is true
AsBool(v) ==
    IF IsBool(v) THEN v.bool
    ELSE IF IsNum(v) THEN v.num # 0
    ELSE TRUE

\* df[name] = df[name].astype(bool)
AstypeBool(df, name) ==
    LET k == ColIndex(df, name) IN
    DataFrame(df.columns,
              [i \in 1..Len(df.rows) |->
                  [df.rows[i] EXCEPT ![k] = Bool(AsBool(df.rows[i][k]))]])

\* pd.DataFrame() without its columns
EmptyContacts_NoColumns == DataFrame(<<>>, <<>>)

\* pd.DataFrame(columns=[...]) of load_contact_data
EmptyContacts == DataFrame(contacts_required, <<>>)

(***************************************************************************)
(* build_merged_data: support_df.merge(contacts_df, on="municipality",     *)
(* how="left", suffixes=("", "_contact"))                                  *)
(***************************************************************************)
Key == Txt("municipality")

\* the right-hand columns other than the key, in order
RightCols(right) ==
    LET NotKey(c) == c # Key IN SelectSeq(right.columns, NotKey)

\* a right-hand column whose name the left table also has gets the suffix
Suffixed(left, c) == IF HasColumn(left, c) THEN c \o Txt("_contact") ELSE c

MergedColumns(left, right) ==
    left.columns \o
    [j \in 1..Len(RightCols(right)) |-> Suffixed(left, RightCols(right)[j])]

\* the right rows whose key equals k, in their order
Matches(right, k) ==
    LET IsMatch(r) == r[ColIndex(right, Key)] = k IN SelectSeq(right.rows, IsMatch)

RightPart(right, r) ==
    [j \in 1..Len(RightCols(right)) |-> r[ColIndex(right, RightCols(right)[j])]]

\* how="inner" in the place of how="left": an unmatched left row is dropped
MergeRow_Inner(left, right, lrow) ==
    LET m == Matches(right, lrow[ColIndex(left, Key)]) IN
    [q \in 1..Len(m) |-> lrow \o RightPart(right, m[q])]

\* the merged rows of one left row: one per match, or one with NaN contacts
MergeRow(left, right, lrow) ==
    LET m == Matches(right, lrow[ColIndex(left, Key)]) IN
    IF m = <<>> THEN <<lrow \o [j \in 1..Len(RightCols(right)) |-> NaN]>>
    ELSE [q \in 1..Len(m) |-> lrow \o RightPart(right, m[q])]

RECURSIVE MergeRows(_, _, _)
MergeRows(left, right, i) ==
    IF i > Len(left.rows) THEN <<>>
    ELSE MergeRow(left, right, left.rows[i]) \o MergeRows(left, right, i + 1)

Merge(left, right) ==
    DataFrame(MergedColumns(left, right), MergeRows(left, right, 1))

(***************************************************************************)
(* main: sidebar filters                                                   *)
(***************************************************************************)
All == Str(Txt("All"))

\* ["All"] + sorted(df["county"].dropna().unique().tolist()), as a set: the
\* order of the options decides nothing below
Counties(df) ==
    {All} \cup {Column(df, Txt("county"))[i] : i \in
                   {i \in 1..Len(df.rows) : ~IsNaN(Column(df, Txt("county"))[i])}}

SupportFilters == {"All", "With support", "Without support"}

\* df[df[name] == value]
Where(df, name, value) ==
    LET k == ColIndex(df, name)
        Keep(r) == r[k] = value
    IN DataFrame(df.columns, SelectSeq(df.rows, Keep))

ApplyCounty(df, selected_county) ==
    IF selected_county # All THEN Where(df, Txt("county"), selected_county) ELSE df

ApplySupport(df, support_filter) ==
    IF support_filter = "With support" THEN Where(df, Txt("has_support"), Bool(TRUE))
    ELSE IF support_filter = "Without support"
         THEN Where(df, Txt("has_support"), Bool(FALSE))
    ELSE df

\* the second filter applied to df in the place of filtered_df
Filtered_SupportOnly(df, selected_county, support_filter) ==
    IF support_filter = "All" THEN ApplyCounty(df, selected_county)
    ELSE ApplySupport(df, support_filter)

Filtered(df, selected_county, support_filter) ==
    ApplySupport(ApplyCounty(df, selected_county), support_filter)

(***************************************************************************)
(* main: KPIs, map, table                                                  *)
(***************************************************************************)
WithSupport(filtered_df) == Where(filtered_df, Txt("has_support"), Bool(TRUE))

\* with_support_df["payment_per_tire"].dropna()
ValidPayments(with_support_df) ==
    LET Defined(v) == ~IsNaN(v)
    IN SelectSeq(Column(with_support_df, Txt("payment_per_tire")), Defined)

MaxOf(values) ==
    CHOOSE v \in {values[i].num : i \in 1..Len(values)} :
        \A i \in 1..Len(values) : values[i].num <= v

\* round(x) in the place of int(x)
IntOf_Round(tenths) == (tenths + 5) \div 10

\* int(x) of a number kept in tenths: truncation toward zero
IntOf(tenths) == IF tenths >= 0 THEN tenths \div 10 ELSE -((-tenths) \div 10)

\* the value shown by col3.metric: f"{max_support} NOK" or "-"
NokLabel(k) == [nok |-> k, text |-> "NOK"]

Dash == [nok |-> 0, text |-> "-"]

MaxKpi(with_support_df) ==
    IF ValidPayments(with_support_df) # <<>>
    THEN NokLabel(IntOf(MaxOf(ValidPayments(with_support_df))))
    ELSE Dash

\* df[[names]]
Project(df, names) ==
    DataFrame(names,
              [i \in 1..Len(df.rows) |->
                  [j \in 1..Len(names) |-> df.rows[i][ColIndex(df, names[j])]]])

MapFrame(with_support_df) ==
    LET la == ColIndex(with_support_df, Txt("lat"))
        lo == ColIndex(with_support_df, Txt("lon"))
        Located(r) == ~IsNaN(r[la]) /\ ~IsNaN(r[lo])
    IN Project(DataFrame(with_support_df.columns,
                         SelectSeq(with_support_df.rows, Located)),
               <<Txt("municipality"), Txt("lat"), Txt("lon")>>)

display_cols ==
    <<Txt("municipality"), Txt("county"), Txt("has_support"),
      Txt("payment_per_tire"), Txt("max_tires"), Txt("max_total_nok"),
      Txt("period_start"), Txt("period_end"), Txt("service_name"),
      Txt("phone"), Txt("website"), Txt("info_url")>>

\* filtered_df[col] = "" for one display column the frame lacks
WithColumn(df, name) ==
    IF HasColumn(df, name) THEN df
    ELSE DataFrame(Append(df.columns, name),
                   [i \in 1..Len(df.rows) |-> Append(df.rows[i], Str(<<>>))])

RECURSIVE WithDisplayCols(_, _)
WithDisplayCols(df, k) ==
    IF k > Len(display_cols) THEN df
    ELSE WithDisplayCols(WithColumn(df, display_cols[k]), k + 1)

TableFrame(filtered_df) == Project(WithDisplayCols(filtered_df, 1), display_cols)

(***************************************************************************)
(* The files under data/: a logical table written in an encoding with a    *)
(* delimiter.  No cell of a written table holds the file's own delimiter,  *)
(* so no field needs quoting.                                              *)
(***************************************************************************)
Table(columns, rows) == [columns |-> columns, rows |-> rows]

RECURSIVE WriteLine(_, _, _)
WriteLine(cells, enc, sep) ==
    IF Len(cells) = 1 THEN EncodeText(cells[1], enc).v
    ELSE EncodeText(cells[1], enc).v \o <<Asc(sep)>> \o WriteLine(Tail(cells), enc, sep)

\* the bytes of the file: utf-8-sig is UTF-8 behind the bytes of U+FEFF
WriteCsv(table, enc, sep) ==
    LET lines == <<WriteLine(table.columns, enc, sep)>> \o
                 [i \in 1..Len(table.rows) |-> WriteLine(table.rows[i], enc, sep)]
    IN IF enc = "utf-8-sig"
       THEN [lines EXCEPT ![1] = EncodeUtf8Char(BOMChar).v \o lines[1]]
       ELSE lines

Writable(table, sep) ==
    /\ \A j \in 1..Len(table.columns) : ~Occurs(Asc(sep), table.columns[j])
    /\ \A i \in 1..Len(table.rows) : \A j \in 1..Len(table.rows[i]) :
           ~Occurs(Asc(sep), table.rows[i][j])

\* every name and cell of the table has an encoding in enc
Encodable(table, enc) ==
    /\ \A j \in 1..Len(table.columns) : EncodeText(table.columns[j], enc).ok
    /\ \A i \in 1..Len(table.rows) : \A j \in 1..Len(table.rows[i]) :
           EncodeText(table.rows[i][j], enc).ok

SUPPORT_FILE(bytes) ==
    [name |-> "piggdekk_support.csv", exists |-> TRUE, bytes |-> bytes]

CONTACTS_FILE(bytes) ==
    [name |-> "municipality_contacts.csv", exists |-> TRUE, bytes |-> bytes]

NoSupportFile ==
    [name |-> "piggdekk_support.csv", exists |-> FALSE, bytes |-> <<>>]

NoContactsFile ==
    [name |-> "municipality_contacts.csv", exists |-> FALSE, bytes |-> <<>>]

Encodings == {"utf-8-sig", "utf-8", "latin-1"}

Delimiters == {",", ";", "\t"}

\* Tromsoe with its o-slash (U+00F8), and a name holding A-tilde (U+00C3)
\* followed by cedilla (U+00B8): as Latin-1 bytes, C3 B8, it is also the
\* UTF-8 encoding of U+00F8
Tromso == <<Asc("Troms"), Chr(248)>>

Mojibake == <<Asc("B"), Chr(195), Chr(184)>>

\* a name with a character beyond the basic plane (U+1F600): four bytes in
\* UTF-8, none in Latin-1
Astral == <<Asc("Oslo"), Chr(128512)>>

\* a support row: the cell of each column
SupportCell(name, r) ==
    CASE name = Txt("municipality")     -> r.municipality
      [] name = Txt("county")           -> r.county
      [] name = Txt("has_support")      -> r.has_support
      [] name = Txt("payment_per_tire") -> r.payment_per_tire
      [] name = Txt("max_tires")        -> Txt("4")
      [] name = Txt("max_total_nok")    -> Txt("1000")
      [] name = Txt("period_start")     -> Txt("2024-10-01")
      [] name = Txt("period_end")       -> Txt("2025-04-30")
      [] name = Txt("lat")              -> r.lat
      [] name = Txt("lon")              -> IF r.lat = <<>> THEN <<>> ELSE Txt("10.7")
      [] name = Txt("info_url")         -> Txt("kommune.no/piggdekk")
      [] OTHER                          -> Txt("x")

SupportRow(m, c, h, p, l) ==
    [municipality |-> m, county |-> c, has_support |-> h, payment_per_tire |-> p,
     lat |-> l]

SupportTable(columns, recs) ==
    Table(columns,
          [i \in 1..Len(recs) |->
              [j \in 1..Len(columns) |-> SupportCell(columns[j], recs[i])]])

ContactCell(name, r) ==
    CASE name = Txt("municipality") -> r.municipality
      [] name = Txt("service_name") -> r.service_name
      [] name = Txt("phone")        -> Txt("22-00-00-00")
      [] name = Txt("website")      -> <<>>
      [] OTHER                      -> Txt("x")

ContactRow(m, s) == [municipality |-> m, service_name |-> s]

ContactTable(columns, recs) ==
    Table(columns,
          [i \in 1..Len(recs) |->
              [j \in 1..Len(columns) |-> ContactCell(columns[j], recs[i])]])

\* a header without its k-th column (k = 0: the whole header)
Without(columns, k) ==
    [j \in 1..(IF k = 0 THEN Len(columns) ELSE Len(columns) - 1) |->
        IF k = 0 \/ j < k THEN columns[j] ELSE columns[j + 1]]

\* the same columns with the first one moved to the end
Rotated(columns) == Tail(columns) \o <<Head(columns)>>

SeqsUpTo(S, n) == UNION {[1..k -> S] : k \in 0..n}

(***************************************************************************)
(* State                                                                   *)
(***************************************************************************)
VARIABLES
    origin,          \* the logical table, encoding and delimiter the file read first was written from
    support_file,    \* data/piggdekk_support.csv
    contacts_file,   \* data/municipality_contacts.csv
    pc,              \* the position of the run
    call,            \* the running read_csv_flexible call: path, required_cols, loop index, last_error
    attempts,        \* the outcome of each pass of the loop of that call, in order
    result,          \* what the last read_csv_flexible call returned or raised
    support_df, contacts_df, df,
    selected_county, support_filter, filtered_df,
    kpi, map_df, table,
    screen           \* the widgets shown so far, in order

vars == <<origin, support_file, contacts_file, pc, call, attempts, result,
          support_df, contacts_df, df, selected_county, support_filter,
          filtered_df, kpi, map_df, table, screen>>

frames == <<support_df, contacts_df, df>>

view == <<selected_county, support_filter, filtered_df, kpi, map_df, table>>

files == <<origin, support_file, contacts_file>>

NoCall == [path |-> NoContactsFile, required_cols |-> <<>>, i |-> 0,
           last_error |-> NoError, ret |-> "none"]

NewCall(path, required_cols, ret) ==
    [path |-> path, required_cols |-> required_cols, i |-> 1,
     last_error |-> NoError, ret |-> ret]

NoKpi == [col1 |-> 0, col2 |-> 0, col3 |-> Dash]

Blank ==
    /\ attempts = <<>>
    /\ result = NoError
    /\ support_df = NoFrame
    /\ contacts_df = NoFrame
    /\ df = NoFrame
    /\ selected_county = All
    /\ support_filter = "All"
    /\ filtered_df = NoFrame
    /\ kpi = NoKpi
    /\ map_df = NoFrame
    /\ table = NoFrame
    /\ screen = <<>>

(***************************************************************************)
(* Bounds and input sets                                                   *)
(***************************************************************************)
\* data rows of a file handed to read_csv_flexible directly
MaxFileRows == 1

\* support rows of a run of main
MaxRows == 3

\* support rows of a run of main whose contacts file has rows
MaxJoinRows == 2

\* rows of the contacts file
MaxContacts == 3

Municipalities == {Txt("Oslo"), Tromso, Mojibake, Astral}

Extras == {<<>>, <<Txt("notes")>>, <<<<Asc("notes"), Asc(","), Asc("misc")>>>>}

SupportRows ==
    { SupportRow(Txt("Oslo"), Txt("Oslo"), Txt("True"), Txt("100"), Txt("59.9")),
      SupportRow(Txt("Bergen"), Txt("Vestland"), Txt("True"), <<>>, Txt("59.9")),
      SupportRow(Txt("Voss"), Txt("Vestland"), Txt("False"), Txt("1000"), Txt("59.9")),
      SupportRow(Tromso, <<>>, Txt("maybe"), Txt("100"), <<>>),
      SupportRow(Txt("Alta"), Txt("Oslo"), Txt("True"), Txt("250"), <<>>),
      SupportRow(Txt("Moss"), Txt("Vestland"), Txt("True"), Txt("99.5"), Txt("59.9")) }

\* the support rows of the runs whose contacts file has rows
JoinRows ==
    { SupportRow(Txt("Oslo"), Txt("Oslo"), Txt("True"), Txt("100"), Txt("59.9")),
      SupportRow(Txt("Bergen"), Txt("Vestland"), Txt("False"), <<>>, Txt("59.9")) }

ContactRows ==
    { ContactRow(Txt("Oslo"), Txt("Bymiljoetaten")),
      ContactRow(Txt("Oslo"), Txt("Innbyggerservice")),
      ContactRow(Txt("Narvik"), Txt("Servicetorget")) }

(***************************************************************************)
(* Initial states                                                          *)
(***************************************************************************)
\* support files without a header: no file at the path, a file of no byte,
\* a file holding only the byte-order mark, or only its first bytes
HeaderlessFiles ==
    { NoSupportFile, SUPPORT_FILE(<<>>), SUPPORT_FILE(<<EncodeUtf8Char(BOMChar).v>>) }
    \cup { SUPPORT_FILE(<<SubSeq(EncodeUtf8Char(BOMChar).v, 1, n)>>) : n \in 1..2 }

\* a direct call read_csv_flexible(path, required_cols) on a support-like
\* file: any header order, one column dropped or none, an extra column or
\* none, any encoding and delimiter; or on a path with no header to read
InitReader ==
    /\ \/ \E base \in {support_required, Rotated(support_required)},
             k \in 0..Len(support_required),
             extra \in Extras,
             recs \in SeqsUpTo({SupportRow(m, Txt("Oslo"), Txt("True"), Txt("100"),
                                           Txt("59.9")) : m \in Municipalities},
                               MaxFileRows),
             enc \in Encodings,
             sep \in Delimiters :
            LET t == SupportTable(Without(base, k) \o extra, recs) IN
            /\ Writable(t, sep)
            /\ Encodable(t, enc)
            /\ origin = [table |-> t, enc |-> enc, sep |-> sep]
            /\ support_file = SUPPORT_FILE(WriteCsv(t, enc, sep))
       \/ /\ origin = [table |-> Table(<<>>, <<>>), enc |-> "utf-8", sep |-> ","]
          /\ support_file \in HeaderlessFiles
    /\ \E required_cols \in {<<>>, support_required} :
          call = NewCall(support_file, required_cols, "returned")
    /\ contacts_file = NoContactsFile
    /\ pc = "read_csv_flexible"
    /\ Blank

ContactsFileOf(k, enc, recs) ==
    CONTACTS_FILE(WriteCsv(ContactTable(Without(contacts_required, k), recs), enc, ";"))

\* contacts files that read well: any rows, UTF-8 or Latin-1
GoodContacts ==
    { ContactsFileOf(0, "utf-8", recs) : recs \in SeqsUpTo(ContactRows, MaxContacts) }
    \cup { ContactsFileOf(0, "latin-1", <<ContactRow(Tromso, Txt("Servicetorget"))>>) }

\* a contacts file without its phone column
BadContacts ==
    { ContactsFileOf(3, "utf-8", <<ContactRow(Txt("Oslo"), Txt("Bymiljoetaten"))>>) }

\* a run of main(): the two files as they lie on disk
Init ==
    /\ \/ \E recs \in SeqsUpTo(SupportRows, MaxRows) :
            /\ origin = [table |-> SupportTable(support_required, recs),
                         enc |-> "utf-8-sig", sep |-> ","]
            /\ contacts_file \in {NoContactsFile} \cup BadContacts
       \/ \E recs \in SeqsUpTo(JoinRows, MaxJoinRows) :
            /\ origin = [table |-> SupportTable(support_required, recs),
                         enc |-> "utf-8", sep |-> ","]
            /\ contacts_file \in GoodContacts
       \/ \E k \in {0, 2}, rec \in SupportRows :
            /\ origin = [table |-> SupportTable(Without(support_required, k), <<rec>>),
                         enc |-> "latin-1", sep |-> ","]
            /\ contacts_file = NoContactsFile
    /\ support_file = SUPPORT_FILE(WriteCsv(origin.table, origin.enc, origin.sep))
    /\ call = NoCall
    /\ pc = "main"
    /\ Blank

(***************************************************************************)
(* read_csv_flexible                                                       *)
(***************************************************************************)
\* one pass of the for loop: return the frame, keep a caught error and go
\* on, or let an error the except clause does not name leave the call
Reader_Try ==
    /\ pc = "read_csv_flexible"
    /\ call.i <= Len(encodings)
    /\ LET o == TryEncoding(call.path, encodings[call.i], call.required_cols) IN
       /\ attempts' = Append(attempts, [enc |-> encodings[call.i], out |-> o])
       /\ IF o.kind \notin caught
          THEN /\ result' = o
               /\ pc' = call.ret
               /\ call' = call
          ELSE /\ call' = [call EXCEPT !.last_error = o, !.i = call.i + 1]
               /\ UNCHANGED <<result, pc>>
    /\ UNCHANGED <<files, frames, view, screen>>

\* after the loop: raise last_error
Reader_Raise ==
    /\ pc = "read_csv_flexible"
    /\ call.i > Len(encodings)
    /\ result' = call.last_error
    /\ pc' = call.ret
    /\ UNCHANGED <<files, call, attempts, frames, view, screen>>

(***************************************************************************)
(* main, build_merged_data and the loaders                                 *)
(***************************************************************************)
\* main -> build_merged_data -> load_support_data -> read_csv_flexible
Main_Begin ==
    /\ pc = "main"
    /\ call' = NewCall(support_file, support_required, "load_support_data")
    /\ attempts' = <<>>
    /\ pc' = "read_csv_flexible"
    /\ UNCHANGED <<files, result, frames, view, screen>>

\* load_support_data after the read: the error passes through to main, or
\* has_support is cast to bool and the frame returned
LoadSupport_Finish ==
    /\ pc = "load_support_data"
    /\ IF result.kind = "return"
       THEN /\ support_df' = AstypeBool(result.df, Txt("has_support"))
            /\ pc' = "load_contact_data"
       ELSE /\ pc' = "except"
            /\ UNCHANGED support_df
    /\ UNCHANGED <<files, call, attempts, result, contacts_df, df, view, screen>>

\* load_contact_data: the empty frame when the file is absent, else the read
LoadContact_Begin ==
    /\ pc = "load_contact_data"
    /\ IF ~contacts_file.exists
       THEN /\ contacts_df' = EmptyContacts
            /\ pc' = "merge"
            /\ UNCHANGED <<call, attempts>>
       ELSE /\ call' = NewCall(contacts_file, contacts_required, "load_contact_return")
            /\ attempts' = <<>>
            /\ pc' = "read_csv_flexible"
            /\ UNCHANGED contacts_df
    /\ UNCHANGED <<files, result, support_df, df, view, screen>>

LoadContact_Finish ==
    /\ pc = "load_contact_return"
    /\ IF result.kind = "return"
       THEN /\ contacts_df' = result.df
            /\ pc' = "merge"
       ELSE /\ pc' = "except"
            /\ UNCHANGED contacts_df
    /\ UNCHANGED <<files, call, attempts, result, support_df, df, view, screen>>

\* build_merged_data: the left join, returned to main as df
BuildMerged ==
    /\ pc = "merge"
    /\ df' = Merge(support_df, contacts_df)
    /\ pc' = "sidebar"
    /\ UNCHANGED <<files, call, attempts, result, support_df, contacts_df, view, screen>>

\* the except branch without its st.stop()
ShowError_NoStop ==
    /\ pc = "except"
    /\ screen' = Append(screen, "error")
    /\ pc' = "sidebar"
    /\ UNCHANGED <<files, call, attempts, result, frames, view>>

\* except Exception: st.error(...) and st.stop()
ShowError ==
    /\ pc = "except"
    /\ screen' = Append(screen, "error")
    /\ pc' = "stopped"
    /\ UNCHANGED <<files, call, attempts, result, frames, view>>

\* the two select boxes of the sidebar
Sidebar ==
    /\ pc = "sidebar"
    /\ selected_county' \in Counties(df)
    /\ support_filter' \in SupportFilters
    /\ pc' = "filter"
    /\ UNCHANGED <<files, call, attempts, result, frames, filtered_df, kpi, map_df,
                   table, screen>>

\* filtered_df = df.copy(), narrowed by county and by support status
ApplyFilters ==
    /\ pc = "filter"
    /\ filtered_df' = Filtered(df, selected_county, support_filter)
    /\ pc' = "kpi"
    /\ UNCHANGED <<files, call, attempts, result, frames, selected_county,
                   support_filter, kpi, map_df, table, screen>>

\* the three metrics
Kpis ==
    /\ pc = "kpi"
    /\ kpi' = [col1 |-> Len(filtered_df.rows),
               col2 |-> Len(WithSupport(filtered_df).rows),
               col3 |-> MaxKpi(WithSupport(filtered_df))]
    /\ screen' = Append(screen, "metric")
    /\ pc' = "map"
    /\ UNCHANGED <<files, call, attempts, result, frames, selected_county,
                   support_filter, filtered_df, map_df, table>>

\* st.map of the located supported rows, or st.info when there is none
Map ==
    /\ pc = "map"
    /\ map_df' = MapFrame(WithSupport(filtered_df))
    /\ screen' = Append(screen, IF map_df'.rows # <<>> THEN "map" ELSE "info")
    /\ pc' = "table"
    /\ UNCHANGED <<files, call, attempts, result, frames, selected_county,
                   support_filter, filtered_df, kpi, table>>

\* st.dataframe of the display columns
ShowTable ==
    /\ pc = "table"
    /\ table' = TableFrame(filtered_df)
    /\ screen' = Append(screen, "dataframe")
    /\ pc' = "done"
    /\ UNCHANGED <<files, call, attempts, result, frames, selected_county,
                   support_filter, filtered_df, kpi, map_df>>

NextReader == Reader_Try \/ Reader_Raise

Next ==
    \/ Main_Begin
    \/ Reader_Try
    \/ Reader_Raise
    \/ LoadSupport_Finish
    \/ LoadContact_Begin
    \/ LoadContact_Finish
    \/ BuildMerged
    \/ ShowError
    \/ Sidebar
    \/ ApplyFilters
    \/ Kpis
    \/ Map
    \/ ShowTable

\* a run of main()
Spec == Init /\ [][Next]_vars

\* a direct call of read_csv_flexible
SpecReader == InitReader /\ [][NextReader]_vars

(***************************************************************************)
(* Properties of read_csv_flexible (checked under SpecReader)              *)
(***************************************************************************)
\* the call has ended, by a return or by a raise
Ended == pc = "returned"

\* the columns of the written table that the eleven required ones lack
LackingOf(t) ==
    LET Absent(c) == \A j \in 1..Len(t.columns) : t.columns[j] # c
    IN SelectSeq(support_required, Absent)

\* the file read by the call, had its table been written otherwise
Rewritten(enc, sep) == SUPPORT_FILE(WriteCsv(origin.table, enc, sep))

\* C1: a support file that lacks exactly one of the eleven required columns,
\* in any of the three encodings, makes read_csv_flexible raise the
\* missing-columns error that lists that one column and no other, together
\* with the columns found in the file.
C1_MissingOneColumnNamed ==
    (Ended /\ call.required_cols = support_required
           /\ Len(LackingOf(origin.table)) = 1)
    => /\ result.kind = "KeyError"
       /\ result.missing = LackingOf(origin.table)
       /\ result.columns = origin.table.columns

\* C2: the encodings are tried in the order utf-8-sig, utf-8, latin-1, once
\* each; the call returns the frame of the first attempt that decodes and
\* has every required column and tries nothing after it; a failed attempt
\* does not end the call while an encoding is left; the call raises only
\* after three failed attempts, and then the error of the last one.
C2_FirstGoodEncodingWins ==
    LET order == <<"utf-8-sig", "utf-8", "latin-1">>
        n     == Len(attempts)
        Out(i) == TryEncoding(call.path, order[i], call.required_cols)
    IN /\ n <= 3
       /\ \A i \in 1..n : attempts[i].enc = order[i] /\ attempts[i].out = Out(i)
       /\ \A i \in 1..(n - 1) : attempts[i].out.kind # "return"
       /\ (Ended /\ result.kind = "return")
             => /\ n >= 1
                /\ result = Out(n)
                /\ \A i \in 1..(n - 1) : Out(i).kind # "return"
       /\ (Ended /\ result.kind # "return")
             => /\ n = 3
                /\ \A i \in 1..3 : Out(i).kind \in {"UnicodeDecodeError", "KeyError"}
                /\ result = Out(3)
       /\ (n < 3 /\ \A i \in 1..n : attempts[i].out.kind # "return")
             => (~Ended /\ result = NoError)

\* C3: a valid support file yields the same frame whichever of the three
\* encodings and of the three delimiters it is written with.
C3_SameTableAnyFormat ==
    (Ended /\ call.required_cols = support_required
           /\ LackingOf(origin.table) = <<>>)
    => /\ result.kind = "return"
       /\ \A enc \in Encodings, sep \in Delimiters :
             (Writable(origin.table, sep) /\ Encodable(origin.table, enc))
             => FlexibleFrom(Rewritten(enc, sep), support_required, 1, NoError) = result

\* the for loop has run out of encodings: the call ends by raise last_error
Exhausted == call.i > Len(encodings)

\* C10: a call that fails by running out of encodings raises the
\* missing-columns error of its Latin-1 attempt, with the columns as Latin-1
\* decodes them; no call raises a decode failure; a call with required_cols
\* empty never fails by running out of encodings; every other failure is an
\* error the loop does not catch.
C10_OnlyLatin1SchemaFailure ==
    Ended =>
       /\ result.kind # "UnicodeDecodeError"
       /\ (result.kind # "return" /\ Exhausted)
             => /\ result.kind = "KeyError"
                /\ call.required_cols # <<>>
                /\ Len(attempts) = Len(encodings)
                /\ LET latin == ReadCsv(call.path.bytes, "latin-1") IN
                   /\ latin.ok
                   /\ result.columns = latin.df.columns
                   /\ result.missing = Missing(call.required_cols, latin.df)
                   /\ result.missing # <<>>
       /\ (result.kind # "return" /\ ~Exhausted) => result.kind \notin caught
       /\ call.required_cols = <<>> => ~(result.kind # "return" /\ Exhausted)

\* a Latin-1 file that UTF-8 cannot decode and that lacks a required column,
\* and a call without required columns on such bytes
C10_Witness ==
    /\ Ended
    /\ Exhausted
    /\ result.kind = "KeyError"
    /\ attempts[1].out.kind = "UnicodeDecodeError"
    /\ attempts[2].out.kind = "UnicodeDecodeError"

(***************************************************************************)
(* Properties of a run of main() (checked under Spec)                      *)
(***************************************************************************)
SupportLoaded ==
    pc \in {"load_contact_data", "load_contact_return", "merge", "sidebar",
            "filter", "kpi", "map", "table", "done"}
    \/ (pc \in {"read_csv_flexible", "except", "stopped"} /\ call.path = contacts_file)

ContactsLoaded == pc \in {"merge", "sidebar", "filter", "kpi", "map", "table", "done"}

Merged == pc \in {"sidebar", "filter", "kpi", "map", "table", "done"}

ViewBuilt == pc \in {"kpi", "map", "table", "done"}

KpiShown == pc \in {"map", "table", "done"}

\* has_support texts that read as a boolean
Coercible(text) ==
    \E lit \in true_values \cup false_values \cup {"0", "1"} : text = Txt(lit)

\* C4: has_support is a strict boolean in the frame load_support_data
\* returns, and the load returns no frame for a file that holds a
\* has_support value which is not boolean-coercible.
C4_NonCoercibleSurfaces ==
    SupportLoaded =>
       /\ \A i \in 1..Len(support_df.rows) :
             IsBool(Cell(support_df, i, Txt("has_support")))
       /\ \A i \in 1..Len(origin.table.rows) :
             Coercible(origin.table.rows[i][
                 CHOOSE j \in 1..Len(origin.table.columns) :
                     origin.table.columns[j] = Txt("has_support")])

\* the contact rows that bear the municipality of the i-th support row
MatchesOf(i) ==
    LET Same(j) == Cell(contacts_df, j, Key) = Cell(support_df, i, Key)
    IN SelectSeq([j \in 1..Len(contacts_df.rows) |-> j], Same)

FanOut(i) == IF Len(MatchesOf(i)) = 0 THEN 1 ELSE Len(MatchesOf(i))

\* the merged rows that precede those of the i-th support row
RECURSIVE RowsBefore(_)
RowsBefore(i) == IF i = 1 THEN 0 ELSE RowsBefore(i - 1) + FanOut(i - 1)

ContactFields == <<Txt("service_name"), Txt("phone"), Txt("website")>>

\* C5: the merged frame holds, for each support row in order, one row per
\* contact row of the same municipality (the support fields beside that
\* contact's fields), or a single row with absent contact fields when there
\* is none; it holds nothing else, so no municipality of the contacts alone.
C5_LeftJoinFanOut ==
    Merged =>
       LET n == Len(support_df.rows)
           w == Len(support_df.columns)
       IN /\ Len(df.rows) = RowsBefore(n + 1)
          /\ \A c \in 1..3 : HasColumn(df, ContactFields[c])
          /\ \A i \in 1..n : \A q \in 1..FanOut(i) :
                LET row == df.rows[RowsBefore(i) + q] IN
                /\ SubSeq(row, 1, w) = support_df.rows[i]
                /\ \A c \in 1..3 :
                      row[ColIndex(df, ContactFields[c])] =
                         IF Len(MatchesOf(i)) = 0 THEN NaN
                         ELSE Cell(contacts_df, MatchesOf(i)[q], ContactFields[c])
          /\ \A r \in 1..Len(df.rows) :
                \E i \in 1..n : Cell(df, r, Key) = Cell(support_df, i, Key)

\* two contacts for one support row, none for another, and a contact of a
\* municipality the support table lacks
C5_Witness ==
    /\ pc = "sidebar"
    /\ \E i \in 1..Len(support_df.rows) : Len(MatchesOf(i)) = 2
    /\ \E i \in 1..Len(support_df.rows) : Len(MatchesOf(i)) = 0
    /\ \E j \in 1..Len(contacts_df.rows) :
          \A i \in 1..Len(support_df.rows) :
             Cell(contacts_df, j, Key) # Cell(support_df, i, Key)

\* C6: without a contacts file load_contact_data returns, with no error,
\* the empty frame of the four contact columns, and the merged frame then
\* has one row per support row with service_name, phone and website present
\* and empty.
C6_AbsentContactsFile ==
    ~contacts_file.exists =>
       /\ ContactsLoaded =>
             /\ contacts_df.rows = <<>>
             /\ contacts_df.columns = <<Txt("municipality"), Txt("service_name"),
                                        Txt("phone"), Txt("website")>>
       /\ (SupportLoaded /\ pc # "load_contact_data") => ContactsLoaded
       /\ Merged =>
             /\ Len(df.rows) = Len(support_df.rows)
             /\ Len(df.rows) = Len(origin.table.rows)
             /\ \A c \in 1..3 :
                   /\ HasColumn(df, ContactFields[c])
                   /\ \A r \in 1..Len(df.rows) : IsNaN(Cell(df, r, ContactFields[c]))

C6_Witness ==
    /\ ~contacts_file.exists
    /\ pc = "sidebar"
    /\ Len(df.rows) = 3

\* C7: the filtered view is the merged rows, in order, whose county is the
\* selected one (if one is selected) and whose has_support is the selected
\* status (if one is selected); under "All" / "All" it is the merged frame.
C7_FilterIsConjunction ==
    ViewBuilt =>
       LET Pass(r) ==
              /\ selected_county = Str(Txt("All"))
                 \/ r[ColIndex(df, Txt("county"))] = selected_county
              /\ \/ support_filter = "All"
                 \/ /\ support_filter = "With support"
                    /\ r[ColIndex(df, Txt("has_support"))] = Bool(TRUE)
                 \/ /\ support_filter = "Without support"
                    /\ r[ColIndex(df, Txt("has_support"))] = Bool(FALSE)
       IN /\ filtered_df.columns = df.columns
          /\ filtered_df.rows = SelectSeq(df.rows, Pass)
          /\ (selected_county = Str(Txt("All")) /\ support_filter = "All")
                => filtered_df = df

\* a county and a status are both selected and each removes rows
C7_Witness ==
    /\ pc = "kpi"
    /\ selected_county = Str(Txt("Vestland"))
    /\ support_filter = "Without support"
    /\ Len(filtered_df.rows) = 1
    /\ Len(Where(df, Txt("county"), selected_county).rows) = 2
    /\ Len(df.rows) = 3

\* both loaders succeed on the files of the run
LoadsOk ==
    /\ FlexibleFrom(support_file, support_required, 1, NoError).kind = "return"
    /\ contacts_file.exists
          => FlexibleFrom(contacts_file, contacts_required, 1, NoError).kind = "return"

Rendered == \E i \in 1..Len(screen) : screen[i] \in {"metric", "map", "info", "dataframe"}

\* C8: when a loader fails main shows one diagnostic and halts: nothing is
\* rendered then or later, and a KPI, map or table is rendered only after
\* build_merged_data has returned.
C8_FailureHaltsRendering ==
    /\ [](/\ ~LoadsOk => (~Rendered /\ ~Merged /\ screen \in {<<>>, <<"error">>})
          /\ pc = "stopped" => (screen = <<"error">> /\ ~LoadsOk)
          /\ screen # <<>> => (pc = "stopped" \/ (Merged /\ Rendered /\ LoadsOk))
          /\ Rendered => (KpiShown /\ df = Merge(support_df, contacts_df)))
    /\ [][pc # "stopped"]_vars

\* the contacts loader failed after the support loader had succeeded
C8_Witness ==
    /\ pc = "stopped"
    /\ call.path = contacts_file
    /\ result.kind = "KeyError"
    /\ screen = <<"error">>

\* the defined payments of the supported rows of the view, in tenths
SupportedPayments ==
    { Cell(filtered_df, r, Txt("payment_per_tire")).num :
        r \in { r \in 1..Len(filtered_df.rows) :
                  /\ Cell(filtered_df, r, Txt("has_support")) = Bool(TRUE)
                  /\ ~IsNaN(Cell(filtered_df, r, Txt("payment_per_tire"))) } }

Largest(S) == CHOOSE x \in S : \A y \in S : y <= x

\* C9 as claimed: the maximum-payment KPI is the largest defined
\* payment_per_tire of the supported rows of the view, and "-" when the view
\* has none.
C9_KpiIsLargestPayment ==
    KpiShown =>
       IF SupportedPayments = {} THEN kpi.col3 = [nok |-> 0, text |-> "-"]
       ELSE /\ kpi.col3.text = "NOK"
            /\ kpi.col3.nok * 10 = Largest(SupportedPayments)

\* C9 as amended: the maximum-payment KPI is the largest defined
\* payment_per_tire of the supported rows of the view cut to its whole
\* number of NOK (the fraction is dropped), and "-" when the view has none.
C9_KpiIsLargestPaymentTruncated ==
    KpiShown =>
       IF SupportedPayments = {} THEN kpi.col3 = [nok |-> 0, text |-> "-"]
       ELSE /\ kpi.col3.text = "NOK"
            /\ LET m == Largest(SupportedPayments)
                   k == kpi.col3.nok * 10
               IN IF m >= 0 THEN k <= m /\ m < k + 10
                  ELSE m <= k /\ k - 10 < m

\* the largest payment is fractional, beside an undefined payment and an
\* unsupported row that pays more
C9_Witness ==
    /\ pc = "done"
    /\ kpi.col3 = [nok |-> 99, text |-> "NOK"]
    /\ Largest(SupportedPayments) = 995
    /\ kpi.col2 = 2
    /\ kpi.col1 = 3
====
